---- MODULE Spec2Model ----
(***************************************************************************)
(* A model of src/reranking/mlx_reranker.py: the command-line entry point  *)
(* main(), the model loader load_model() and the placeholder relevance     *)
(* scorer rerank_documents().                                              *)
(*                                                                         *)
(* A Python str is a sequence of one-character strings.  A Python float    *)
(* that results from the true division of two small non-negative integers  *)
(* is represented by the reduced fraction <<numerator, denominator>>:      *)
(* IEEE division is correctly rounded, so on the integers met here two     *)
(* quotients are equal (ordered) as floats exactly when they are equal     *)
(* (ordered) as fractions.                                                 *)
(***************************************************************************)
EXTENDS Integers, Sequences, FiniteSets

VARIABLES
    pc,             \* position of the process in the script
    argv,           \* what parse_args() made of the command line
    query,          \* args.query
    model_path,     \* args.model
    top_k,          \* args.top_k
    args_documents, \* args.documents, given as the value its JSON text denotes
    documents,      \* the local "documents" of main()
    model,          \* the handles load_model() returned, "None" before
    idx,            \* the enumerate() position of the scoring loop (0-based)
    results,        \* the list the scoring loop builds, then sorted in place
    returned,       \* the value rerank_documents() returned
    exc,            \* the exception being propagated
    loader_calls,   \* number of calls of load_model() so far
    stdout,         \* the objects printed on stdout, in order
    stderr,         \* the objects printed on stderr, in order
    exit_code       \* the exit status, -1 while the process runs

vars == <<pc, argv, query, model_path, top_k, args_documents, documents, model, idx,
          results, returned, exc, loader_calls, stdout, stderr, exit_code>>

(***************************************************************************)
(* Bounds of the model.                                                    *)
(***************************************************************************)
MaxDocs == 3
MaxTopK == 4
MaxStrLen == 3

(***************************************************************************)
(* Python str operations.                                                  *)
(***************************************************************************)
Upper == <<"A", "B", "C", "D", "E", "F", "G", "H", "I", "J", "K", "L", "M",
           "N", "O", "P", "Q", "R", "S", "T", "U", "V", "W", "X", "Y", "Z">>

LowerLetters == <<"a", "b", "c", "d", "e", "f", "g", "h", "i", "j", "k", "l", "m",
                  "n", "o", "p", "q", "r", "s", "t", "u", "v", "w", "x", "y", "z">>

\* the characters str.split() with no argument treats as separators
Whitespace == {" ", "\t", "\n"}

LowerChar(c) ==
    IF \E i \in DOMAIN Upper : Upper[i] = c
    THEN LowerLetters[CHOOSE i \in DOMAIN Upper : Upper[i] = c]
    ELSE c

\* a lower() that forgets to fold the case
StrLowerIdentity(s) == s

\* str.lower()
StrLower(s) == [i \in DOMAIN s |-> LowerChar(s[i])]

RECURSIVE SplitFrom(_, _, _, _)
\* the scan of str.split(): s from position i on, cur the token being read,
\* acc the tokens read so far
SplitFrom(s, i, cur, acc) ==
    IF i > Len(s)
    THEN IF cur = <<>> THEN acc ELSE Append(acc, cur)
    ELSE IF s[i] \in Whitespace
         THEN SplitFrom(s, i + 1, <<>>, IF cur = <<>> THEN acc ELSE Append(acc, cur))
         ELSE SplitFrom(s, i + 1, Append(cur, s[i]), acc)

\* str.split()
StrSplit(s) == SplitFrom(s, 1, <<>>, <<>>)

\* set(list)
SetOf(l) == {l[i] : i \in DOMAIN l}

(***************************************************************************)
(* Python numbers.                                                         *)
(***************************************************************************)
RECURSIVE Gcd(_, _)
Gcd(a, b) == IF b = 0 THEN a ELSE Gcd(b, a % b)

\* the float 0.0
FloatZero == <<0, 1>>

\* a / b for integers a >= 0, b > 0
TrueDiv(a, b) == <<a \div Gcd(a, b), b \div Gcd(a, b)>>

\* f < g on floats
FloatLess(f, g) == f[1] * g[2] < g[1] * f[2]

(***************************************************************************)
(* Python list operations.                                                 *)
(***************************************************************************)
\* list.reverse()
Reverse(l) == [i \in DOMAIN l |-> l[Len(l) + 1 - i]]

\* one step of the insertion sort: x goes behind every element of the sorted
\* list l whose score is not greater than its own, so equal scores keep their order
InsertByScore(l, x) ==
    LET k == Cardinality({i \in DOMAIN l : ~FloatLess(x.score, l[i].score)})
    IN  SubSeq(l, 1, k) \o <<x>> \o SubSeq(l, k + 1, Len(l))

RECURSIVE StableSortAscending(_)
\* the stable ascending sort by x["score"] that list.sort() is built on
StableSortAscending(l) ==
    IF l = <<>>
    THEN <<>>
    ELSE InsertByScore(StableSortAscending(SubSeq(l, 1, Len(l) - 1)), l[Len(l)])

\* a sort that forgets reverse=True
ListSortAscending(l) == StableSortAscending(l)

\* a descending sort made by reversing the ascending one: equal scores come
\* out in reverse order
ListSortThenReverse(l) == Reverse(StableSortAscending(l))

\* list.sort(key=lambda x: x["score"], reverse=True): the list is reversed,
\* sorted ascending and stably, and reversed again
ListSortReverse(l) == Reverse(StableSortAscending(Reverse(l)))

Min(a, b) == IF a < b THEN a ELSE b

Max(a, b) == IF a > b THEN a ELSE b

\* a slice that takes the last |k| elements for a negative k
SliceLastN(l, k) ==
    IF k < 0
    THEN SubSeq(l, Max(0, Len(l) + k) + 1, Len(l))
    ELSE SubSeq(l, 1, Min(k, Len(l)))

\* a slice that stops one element late
SliceOneMore(l, k) ==
    SubSeq(l, 1, IF k < 0 THEN Max(0, Len(l) + k + 1) ELSE Min(k + 1, Len(l)))

\* l[:k]: a negative stop counts from the end, and the stop is clipped to the list
SliceTo(l, k) ==
    SubSeq(l, 1, IF k < 0 THEN Max(0, Len(l) + k) ELSE Min(k, Len(l)))

(***************************************************************************)
(* The body of the scoring loop.                                           *)
(***************************************************************************)
\* an overlap ratio over the sum of the two sizes, not over the union
ScoreOverSum(q, doc) ==
    LET query_words == SetOf(StrSplit(StrLower(q)))
        doc_words == SetOf(StrSplit(StrLower(doc)))
        overlap == Cardinality(query_words \cap doc_words)
        total == Cardinality(query_words) + Cardinality(doc_words)
    IN  IF total > 0 THEN TrueDiv(overlap, total) ELSE FloatZero

\* lines 59-63
Score(q, doc) ==
    LET query_words == SetOf(StrSplit(StrLower(q)))
        doc_words == SetOf(StrSplit(StrLower(doc)))
        overlap == Cardinality(query_words \cap doc_words)
        total == Cardinality(query_words \cup doc_words)
    IN  IF total > 0 THEN TrueDiv(overlap, total) ELSE FloatZero

\* an entry that numbers the documents from 1
EntryOneBased(i, doc) == [index |-> i + 1, score |-> Score(query, doc)]

\* the dictionary appended for the document at enumerate() position i
Entry(i, doc) == [index |-> i, score |-> Score(query, doc)]

(***************************************************************************)
(* The inputs of an invocation.                                            *)
(***************************************************************************)
\* the default of --top-k
DefaultTopK == 10

W_apple == <<"a", "p", "p", "l", "e">>

W_banana == <<"b", "a", "n", "a", "n", "a">>

W_cherry == <<"c", "h", "e", "r", "r", "y">>

W_date == <<"d", "a", "t", "e">>

\* "apple banana"
S_apple_banana == W_apple \o <<" ">> \o W_banana

\* "apple banana cherry"
S_apple_banana_cherry == W_apple \o <<" ">> \o W_banana \o <<" ">> \o W_cherry

\* "cherry date"
S_cherry_date == W_cherry \o <<" ">> \o W_date

\* " \t": no token at all
S_blank == <<" ", "\t">>

\* "BANANA\n Apple banana": the tokens of "apple banana" in other letter cases,
\* in another order, one of them twice, behind more than one separator
S_mixed == <<"B", "A", "N", "A", "N", "A", "\n", " ", "A", "p", "p", "l", "e", " ">>
           \o W_banana

\* a JSON string as an element of the decoded array
JStr(s) == [type |-> "str", val |-> s]

\* a JSON number as an element of the decoded array
JInt == [type |-> "int", val |-> <<>>]

CorpusQueries == {S_apple_banana, <<>>}

CorpusItems ==
    {JStr(S_apple_banana_cherry), JStr(S_cherry_date), JStr(W_apple), JStr(S_blank),
     JStr(S_mixed), JInt}

\* the lists of at most n elements of S
ListsOf(S, n) == UNION {[1..k -> S] : k \in 0..n}

ModelPaths == {"/models/jina-v3-mlx", "./model"}

\* what the text of --documents can denote: no JSON at all, a JSON value that
\* is no array, or an array
JsonValues(lists) ==
    {[kind |-> "invalid", items |-> <<>>], [kind |-> "object", items |-> <<>>]}
        \cup {[kind |-> "array", items |-> l] : l \in lists}

Alphabet == {"a", "A", "b", " "}

(***************************************************************************)
(* The process.                                                            *)
(***************************************************************************)
NoException == [type |-> "None", msg |-> <<>>]

Init ==
    /\ pc = "import"
    /\ argv = "unparsed"
    /\ query = <<>>
    /\ model_path = ""
    /\ top_k = DefaultTopK
    /\ args_documents = [kind |-> "invalid", items |-> <<>>]
    /\ documents = [kind |-> "unset", items |-> <<>>]
    /\ model = "None"
    /\ idx = 0
    /\ results = <<>>
    /\ returned = <<>>
    /\ exc = NoException
    /\ loader_calls = 0
    /\ stdout = <<>>
    /\ stderr = <<>>
    /\ exit_code = -1

\* lines 12-17: the import guard
ImportGuard ==
    /\ pc = "import"
    /\ \E imported \in BOOLEAN :
          IF imported
          THEN /\ pc' = "parse_args"
               /\ UNCHANGED <<stderr, exit_code>>
          ELSE /\ stderr' = Append(stderr,
                     [error |-> <<"MLX dependencies not installed: ",
                                  "No module named 'mlx'">>])
               /\ exit_code' = 1
               /\ pc' = "exit"
    /\ UNCHANGED <<argv, query, model_path, top_k, args_documents, documents, model,
                   idx, results, returned, exc, loader_calls, stdout>>

\* lines 80-86: argparse either fills args, or rejects the command line (usage
\* on stderr, exit status 2), or serves --help (help on stdout, exit status 0)
ParseArgsFrom(queries, paths, topks, values) ==
    /\ pc = "parse_args"
    /\ \/ /\ argv' = "ok"
          /\ query' \in queries
          /\ model_path' \in paths
          /\ top_k' \in topks
          /\ args_documents' \in values
          /\ pc' = "json_loads"
          /\ UNCHANGED <<stdout, stderr, exit_code>>
       \/ /\ argv' = "error"
          /\ stderr' = Append(stderr, [usage |-> "usage: mlx_reranker.py"])
          /\ exit_code' = 2
          /\ pc' = "exit"
          /\ UNCHANGED <<query, model_path, top_k, args_documents, stdout>>
       \/ /\ argv' = "help"
          /\ stdout' = Append(stdout, [help |-> "usage: mlx_reranker.py"])
          /\ exit_code' = 0
          /\ pc' = "exit"
          /\ UNCHANGED <<query, model_path, top_k, args_documents, stderr>>
    /\ UNCHANGED <<documents, model, idx, results, returned, exc, loader_calls>>

ParseArgs ==
    ParseArgsFrom(CorpusQueries, ModelPaths, (-MaxTopK..MaxTopK) \cup {DefaultTopK},
                  JsonValues(ListsOf(CorpusItems, MaxDocs)))

\* the same step, with one document and every short string over Alphabet as
\* the query and as the document
ParseArgsShortStrings ==
    ParseArgsFrom(ListsOf(Alphabet, MaxStrLen), {"./model"}, {DefaultTopK},
                  JsonValues({<<JStr(d)>> : d \in ListsOf(Alphabet, MaxStrLen)}))

\* line 90: json.loads(args.documents)
JsonLoads ==
    /\ pc = "json_loads"
    /\ IF args_documents.kind = "invalid"
       THEN /\ exc' = [type |-> "JSONDecodeError", msg |-> <<"Expecting value">>]
            /\ pc' = "main_except"
            /\ UNCHANGED documents
       ELSE /\ documents' = args_documents
            /\ pc' = "isinstance"
            /\ UNCHANGED exc
    /\ UNCHANGED <<argv, query, model_path, top_k, args_documents, model, idx, results,
                   returned, loader_calls, stdout, stderr, exit_code>>

\* a check that lets every decoded value through
IsInstanceListSkipped ==
    /\ pc = "isinstance"
    /\ pc' = "load_model"
    /\ UNCHANGED <<argv, query, model_path, top_k, args_documents, documents, model,
                   idx, results, returned, exc, loader_calls, stdout, stderr, exit_code>>

\* lines 92-93
IsInstanceList ==
    /\ pc = "isinstance"
    /\ IF documents.kind # "array"
       THEN /\ exc' = [type |-> "ValueError", msg |-> <<"Documents must be a JSON array">>]
            /\ pc' = "main_except"
       ELSE /\ pc' = "load_model"
            /\ UNCHANGED exc
    /\ UNCHANGED <<argv, query, model_path, top_k, args_documents, documents, model,
                   idx, results, returned, loader_calls, stdout, stderr, exit_code>>

\* a loader that is only called when there is a document to score
LoadModelLazy ==
    /\ pc = "load_model"
    /\ IF documents.items = <<>>
       THEN /\ pc' = "loop"
            /\ UNCHANGED <<loader_calls, model, exc>>
       ELSE /\ loader_calls' = loader_calls + 1
            /\ \E loaded \in BOOLEAN :
                  IF loaded
                  THEN /\ model' = "handles"
                       /\ pc' = "loop"
                       /\ UNCHANGED exc
                  ELSE /\ exc' = [type |-> "RuntimeError",
                                  msg |-> <<"Failed to load model from ", model_path, ": ",
                                            "load error">>]
                       /\ pc' = "rerank_except"
                       /\ UNCHANGED model
    /\ idx' = 0
    /\ results' = <<>>
    /\ UNCHANGED <<argv, query, model_path, top_k, args_documents, documents, returned,
                   stdout, stderr, exit_code>>

\* lines 46 and 20-29: rerank_documents() calls load_model(), which returns the
\* handles of mlx_lm.load() or wraps what it raised; line 55 on success
LoadModel ==
    /\ pc = "load_model"
    /\ loader_calls' = loader_calls + 1
    /\ \E loaded \in BOOLEAN :
          IF loaded
          THEN /\ model' = "handles"
               /\ pc' = "loop"
               /\ UNCHANGED exc
          ELSE /\ exc' = [type |-> "RuntimeError",
                          msg |-> <<"Failed to load model from ", model_path, ": ",
                                    "load error">>]
               /\ pc' = "rerank_except"
               /\ UNCHANGED model
    /\ idx' = 0
    /\ results' = <<>>
    /\ UNCHANGED <<argv, query, model_path, top_k, args_documents, documents, returned,
                   stdout, stderr, exit_code>>

\* lines 56-68: one turn of the scoring loop; doc.lower() raises on a document
\* that is no str
ScoreDocument ==
    /\ pc = "loop"
    /\ idx < Len(documents.items)
    /\ LET doc == documents.items[idx + 1]
       IN  IF doc.type = "str"
           THEN /\ results' = Append(results, Entry(idx, doc.val))
                /\ idx' = idx + 1
                /\ UNCHANGED <<pc, exc>>
           ELSE /\ exc' = [type |-> "AttributeError",
                           msg |-> <<"'int' object has no attribute 'lower'">>]
                /\ pc' = "rerank_except"
                /\ UNCHANGED <<results, idx>>
    /\ UNCHANGED <<argv, query, model_path, top_k, args_documents, documents, model,
                   returned, loader_calls, stdout, stderr, exit_code>>

\* line 71, once the loop has run out of documents
SortResults ==
    /\ pc = "loop"
    /\ idx = Len(documents.items)
    /\ results' = ListSortReverse(results)
    /\ pc' = "return"
    /\ UNCHANGED <<argv, query, model_path, top_k, args_documents, documents, model,
                   idx, returned, exc, loader_calls, stdout, stderr, exit_code>>

\* line 72
ReturnTopK ==
    /\ pc = "return"
    /\ returned' = SliceTo(results, top_k)
    /\ pc' = "print"
    /\ UNCHANGED <<argv, query, model_path, top_k, args_documents, documents, model,
                   idx, results, exc, loader_calls, stdout, stderr, exit_code>>

\* lines 74-75: whatever rerank_documents() raised is wrapped
RerankExcept ==
    /\ pc = "rerank_except"
    /\ exc' = [type |-> "RuntimeError", msg |-> <<"Reranking failed: ">> \o exc.msg]
    /\ pc' = "main_except"
    /\ UNCHANGED <<argv, query, model_path, top_k, args_documents, documents, model,
                   idx, results, returned, loader_calls, stdout, stderr, exit_code>>

\* line 104, and the return of main()
PrintResults ==
    /\ pc = "print"
    /\ stdout' = Append(stdout, [results |-> returned])
    /\ exit_code' = 0
    /\ pc' = "exit"
    /\ UNCHANGED <<argv, query, model_path, top_k, args_documents, documents, model,
                   idx, results, returned, exc, loader_calls, stderr>>

\* handlers that print the error and forget sys.exit(1)
MainExceptNoExit ==
    /\ pc = "main_except"
    /\ stderr' = Append(stderr,
          IF exc.type = "JSONDecodeError"
          THEN [error |-> <<"Invalid JSON in documents: ">> \o exc.msg]
          ELSE [error |-> exc.msg])
    /\ exit_code' = 0
    /\ pc' = "exit"
    /\ UNCHANGED <<argv, query, model_path, top_k, args_documents, documents, model,
                   idx, results, returned, exc, loader_calls, stdout>>

\* lines 106-111: the two handlers of main()
MainExcept ==
    /\ pc = "main_except"
    /\ stderr' = Append(stderr,
          IF exc.type = "JSONDecodeError"
          THEN [error |-> <<"Invalid JSON in documents: ">> \o exc.msg]
          ELSE [error |-> exc.msg])
    /\ exit_code' = 1
    /\ pc' = "exit"
    /\ UNCHANGED <<argv, query, model_path, top_k, args_documents, documents, model,
                   idx, results, returned, exc, loader_calls, stdout>>

Next ==
    \/ ImportGuard
    \/ ParseArgs
    \/ JsonLoads
    \/ IsInstanceList
    \/ LoadModel
    \/ ScoreDocument
    \/ SortResults
    \/ ReturnTopK
    \/ RerankExcept
    \/ PrintResults
    \/ MainExcept

Spec == Init /\ [][Next]_vars

\* the same process on every short query and every short single document
NextShortStrings ==
    \/ ImportGuard
    \/ ParseArgsShortStrings
    \/ JsonLoads
    \/ IsInstanceList
    \/ LoadModel
    \/ ScoreDocument
    \/ SortResults
    \/ ReturnTopK
    \/ RerankExcept
    \/ PrintResults
    \/ MainExcept

SpecShortStrings == Init /\ [][NextShortStrings]_vars

(***************************************************************************)
(* What the properties speak of.                                           *)
(***************************************************************************)
\* rerank_documents() has returned a list
RerankReturned == pc = "print" \/ (pc = "exit" /\ argv = "ok" /\ exit_code = 0)

NumDocs == Len(documents.items)

\* the lower-cased whitespace-delimited tokens of s: the maximal runs of
\* characters of the lower-cased s that hold no whitespace
TokenSet(s) ==
    LET low == [i \in DOMAIN s |-> LowerChar(s[i])]
        Starts == {i \in DOMAIN s :
                      low[i] \notin Whitespace /\ (i = 1 \/ low[i - 1] \in Whitespace)}
        EndOf(i) == CHOOSE j \in i..Len(s) :
                       /\ j = Len(s) \/ low[j + 1] \in Whitespace
                       /\ \A k \in i..j : low[k] \notin Whitespace
    IN  {SubSeq(low, i, EndOf(i)) : i \in Starts}

\* the document at the 0-based position i
DocAt(i) == documents.items[i + 1].val

\* |A n B| / |A u B| for the token sets A and B, 0 / 1 when both are empty
JaccardOf(A, B) ==
    IF A \cup B # {}
    THEN <<Cardinality(A \cap B), Cardinality(A \cup B)>>
    ELSE <<0, 1>>

\* the Jaccard similarity of the query and of each document, by 0-based position
JaccardScores ==
    LET A == TokenSet(query)
    IN  [i \in 0..(NumDocs - 1) |-> JaccardOf(A, TokenSet(DocAt(i)))]

\* the float f is the quotient a / b
IsQuotient(f, a, b) == f[2] > 0 /\ f[1] * b = a * f[2]

\* the quotient f is greater than the quotient g
Greater(f, g) == f[1] * g[2] > g[1] * f[2]

\* the quotients f and g are equal
Equal(f, g) == f[1] * g[2] = g[1] * f[2]

\* the place (from 1) of document i in the ranking of all documents by the
\* scores jac descending, equal scores by ascending index
RankOf(jac, i) ==
    1 + Cardinality({j \in DOMAIN jac :
                        Greater(jac[j], jac[i]) \/ (Equal(jac[j], jac[i]) /\ j < i)})

SuccessOutcome ==
    /\ exit_code = 0
    /\ Len(stdout) = 1
    /\ DOMAIN stdout[1] = {"results"}
    /\ stderr = <<>>

FailureOutcome ==
    /\ exit_code = 1
    /\ stdout = <<>>
    /\ Len(stderr) = 1
    /\ DOMAIN stderr[1] = {"error"}

\* load_model() was called and raised
LoadFailed == loader_calls = 1 /\ model = "None"

RerankErrorOfLoad ==
    <<"Reranking failed: ", "Failed to load model from ", model_path, ": ", "load error">>

(***************************************************************************)
(* The properties.                                                         *)
(***************************************************************************)
\* C1: for top_k >= 0 a successful rerank_documents() returns exactly
\* min(top_k, len(documents)) entries: none for top_k = 0, one per document
\* for top_k >= len(documents).
C1_ReturnsMinTopKLen ==
    RerankReturned /\ top_k >= 0 =>
        /\ Len(returned) = (IF top_k < NumDocs THEN top_k ELSE NumDocs)
        /\ top_k = 0 => returned = <<>>
        /\ top_k >= NumDocs => Len(returned) = NumDocs

\* C1 witness: a call that cut a list of documents down to a positive top_k
C1_Witness == RerankReturned /\ top_k > 0 /\ top_k < NumDocs /\ Len(returned) = top_k

\* C2: the returned list is sorted by score descending, for every top_k.
C2_SortedDescending ==
    RerankReturned =>
        \A i \in 1..(Len(returned) - 1) :
            returned[i].score[1] * returned[i + 1].score[2]
                >= returned[i + 1].score[1] * returned[i].score[2]

\* C2 witness: a returned list in which a later document, of a greater score,
\* stands before an earlier one
C2_Witness ==
    /\ RerankReturned
    /\ \E i \in DOMAIN returned : \E j \in DOMAIN returned :
          /\ i < j
          /\ returned[i].index > returned[j].index
          /\ returned[i].score # returned[j].score

\* C3: every returned index is a position of the input list and none is
\* returned twice, also for lists that hold a document twice, for every top_k.
C3_IndicesValidDistinct ==
    RerankReturned =>
        /\ \A i \in DOMAIN returned :
              returned[i].index >= 0 /\ returned[i].index < NumDocs
        /\ \A i \in DOMAIN returned : \A j \in DOMAIN returned :
              i # j => returned[i].index # returned[j].index

\* C3 witness: both copies of a document that stands twice in the input, the
\* last position of the list among them, are returned
C3_Witness ==
    /\ RerankReturned
    /\ \E i \in DOMAIN returned : \E j \in DOMAIN returned :
          /\ returned[i].index # returned[j].index
          /\ returned[j].index = NumDocs - 1
          /\ DocAt(returned[i].index) = DocAt(returned[j].index)

\* C4: every returned score is |A n B| / |A u B| for the token sets A of the
\* query and B of the document, is 0.0 when both are empty, and lies in [0, 1].
C4_ScoreIsJaccard ==
    RerankReturned =>
        \A p \in DOMAIN returned :
            LET e == returned[p]
                A == TokenSet(query)
                B == TokenSet(DocAt(e.index))
            IN  /\ A \cup B # {} =>
                       IsQuotient(e.score, Cardinality(A \cap B), Cardinality(A \cup B))
                /\ A \cup B = {} => e.score = FloatZero
                /\ e.score[2] > 0
                /\ 0 <= e.score[1]
                /\ e.score[1] <= e.score[2]

\* C4 witness: a returned score strictly between 0 and 1
C4_Witness ==
    /\ RerankReturned
    /\ \E p \in DOMAIN returned :
          /\ 0 < returned[p].score[1]
          /\ returned[p].score[1] < returned[p].score[2]

\* C5: a document that shares no token with the query scores exactly 0.0; a
\* document whose token set is that of the query, and not empty, scores
\* exactly 1.0, whatever the letter case, the order and the repetition of
\* the tokens.
C5_DisjointZeroIdenticalOne ==
    RerankReturned =>
        \A p \in DOMAIN returned :
            LET e == returned[p]
                A == TokenSet(query)
                B == TokenSet(DocAt(e.index))
            IN  /\ A \cap B = {} => e.score = <<0, 1>>
                /\ A = B /\ A # {} => e.score = <<1, 1>>

\* C5 witness: a document of score 1.0 that has the two tokens of the query
\* and differs from it in letter case
C5_Witness ==
    /\ RerankReturned
    /\ \E p \in DOMAIN returned :
          /\ returned[p].score = <<1, 1>>
          /\ Cardinality(TokenSet(query)) = 2
          /\ DocAt(returned[p].index) # query
          /\ \E k \in DOMAIN query : LowerChar(query[k]) # query[k]

\* C6 as stated: every invocation ends either in success (one JSON object
\* {"results": ...} on stdout, exit status 0) or in failure (one JSON object
\* {"error": ...} on stderr, exit status 1, nothing on stdout).
C6_EveryInvocationTwoOutcomes ==
    pc = "exit" => (SuccessOutcome \/ FailureOutcome)

\* C6 amended: every invocation whose command line argparse does not end
\* (it rejects none of the arguments and serves no --help) ends in exactly
\* one of the two outcomes; a failed import, an invalid JSON text, a JSON value
\* that is no array and an exception during reranking all end in failure;
\* nothing is printed before the end, and what success prints is the whole
\* list rerank_documents() returned.
C6_ParsedInvocationTwoOutcomes ==
    /\ pc # "exit" => stdout = <<>> /\ stderr = <<>> /\ exit_code = -1
    /\ pc = "exit" /\ argv \notin {"error", "help"} =>
          /\ SuccessOutcome \/ FailureOutcome
          /\ ~(SuccessOutcome /\ FailureOutcome)
          /\ (argv = "unparsed" \/ args_documents.kind # "array" \/ exc # NoException)
                => FailureOutcome
          /\ SuccessOutcome => stdout[1].results = returned

\* C6 witness: an exception during reranking, after a document was scored,
\* ended in the failure outcome
C6_Witness ==
    /\ pc = "exit"
    /\ argv = "ok"
    /\ results # <<>>
    /\ exc.type = "RuntimeError"
    /\ FailureOutcome

\* C7: --documents is decoded and checked to be an array before the scorer
\* runs: on an invalid JSON text or a value that is no array the process exits
\* 1 with an error (that documents must be an array, in the second case) and
\* load_model() is never called.
C7_DecodeAndCheckBeforeScorer ==
    /\ argv = "ok" /\ args_documents.kind # "array" =>
          /\ loader_calls = 0
          /\ model = "None"
          /\ results = <<>>
          /\ pc \in {"json_loads", "isinstance", "main_except", "exit"}
          /\ pc = "exit" =>
                /\ exit_code = 1
                /\ stdout = <<>>
                /\ Len(stderr) = 1
                /\ DOMAIN stderr[1] = {"error"}
                /\ args_documents.kind = "object" =>
                      stderr[1].error = <<"Documents must be a JSON array">>
                /\ args_documents.kind = "invalid" =>
                      stderr[1].error[1] = "Invalid JSON in documents: "
    /\ loader_calls > 0 \/ pc \in {"load_model", "loop", "return", "print", "rerank_except"}
          => documents.kind = "array"

\* C7 witness: an invocation with a JSON object for --documents has ended
C7_Witness == pc = "exit" /\ argv = "ok" /\ args_documents.kind = "object"

\* C8: rerank_documents() calls load_model() before it scores a document, and
\* when load_model() fails it fails with one rerank error that wraps the load
\* error (model path and cause) and returns nothing, for every input, the
\* empty document list and top_k = 0 included.
C8_LoaderFirstAndFailureWrapped ==
    /\ pc \in {"loop", "return", "print"} \/ results # <<>> \/ idx > 0
          => loader_calls = 1 /\ model = "handles"
    /\ \/ pc = "rerank_except"
       \/ RerankReturned
       \/ pc = "exit" /\ argv = "ok" /\ args_documents.kind = "array"
          => loader_calls = 1
    /\ LoadFailed =>
          /\ results = <<>>
          /\ returned = <<>>
          /\ idx = 0
          /\ stdout = <<>>
          /\ pc \in {"rerank_except", "main_except", "exit"}
          /\ pc = "main_except" =>
                exc = [type |-> "RuntimeError", msg |-> RerankErrorOfLoad]
          /\ pc = "exit" =>
                exit_code = 1 /\ stderr = <<[error |-> RerankErrorOfLoad]>>

\* C8 witness: the loader failed on an empty document list with top_k = 0
C8_Witness ==
    /\ LoadFailed
    /\ pc = "exit"
    /\ documents.kind = "array"
    /\ documents.items = <<>>
    /\ top_k = 0

\* C9: for top_k >= 0 the result is the first min(top_k, len(documents))
\* entries of the ranking of all documents by score descending, equal scores
\* by ascending index; query "apple banana" on ["apple banana cherry",
\* "cherry date", "apple"] with top_k = 2 gives indices [0, 2] with scores 2/3
\* and 1/2.
C9_PrefixOfStableRanking ==
    RerankReturned /\ top_k >= 0 =>
        LET jac == JaccardScores
        IN  /\ Len(returned) = (IF top_k < NumDocs THEN top_k ELSE NumDocs)
            /\ \A p \in DOMAIN returned :
                  /\ RankOf(jac, returned[p].index) = p
                  /\ IsQuotient(returned[p].score, jac[returned[p].index][1],
                                jac[returned[p].index][2])
            /\ ( /\ query = S_apple_banana
                 /\ documents.items = <<JStr(S_apple_banana_cherry),
                                        JStr(S_cherry_date), JStr(W_apple)>>
                 /\ top_k = 2 )
                  => returned = <<[index |-> 0, score |-> <<2, 3>>],
                                  [index |-> 2, score |-> <<1, 2>>]>>

\* C9 witness: the cut fell between two documents of the same positive score
C9_Witness ==
    /\ RerankReturned
    /\ top_k >= 1
    /\ top_k < NumDocs
    /\ Len(returned) = top_k
    /\ returned[top_k].score[1] > 0
    /\ \E j \in 0..(NumDocs - 1) :
          /\ \A p \in DOMAIN returned : returned[p].index # j
          /\ Equal(JaccardScores[j], returned[top_k].score)

\* C10: for a negative top_k the result is never the last |top_k| entries of
\* the ranking: it is the first max(0, len(documents) + top_k) entries of the
\* ranking by score descending, so it holds the top-ranked document when it is
\* not empty, and it is empty when |top_k| >= len(documents).
C10_NegativeTopKIsPrefix ==
    RerankReturned /\ top_k < 0 =>
        LET jac == JaccardScores
        IN  /\ Len(returned) = (IF NumDocs + top_k > 0 THEN NumDocs + top_k ELSE 0)
            /\ \A p \in DOMAIN returned : RankOf(jac, returned[p].index) = p
            /\ returned # <<>> => RankOf(jac, returned[1].index) = 1
            /\ -top_k >= NumDocs => returned = <<>>

\* C10 witness: a negative top_k left a result whose first entry outscores a
\* document that was left out
C10_Witness ==
    /\ RerankReturned
    /\ top_k < 0
    /\ returned # <<>>
    /\ \E j \in 0..(NumDocs - 1) :
          /\ \A p \in DOMAIN returned : returned[p].index # j
          /\ Greater(returned[1].score, JaccardScores[j])

====
